---- MODULE Spec2Model ----
(***************************************************************************)
(* Conversation state transformation of the composer                       *)
(* (src/src/composer/transformer.ts): the raw LangChain message history of *)
(* a thread is mapped to the Composer message protocol and paired with the *)
(* session metadata.  Strings that are only compared are TLA+ strings;     *)
(* strings that are taken apart (data URLs, MIME types, base64 payloads)   *)
(* are sequences of character codes.                                       *)
(***************************************************************************)
EXTENDS Integers, Sequences, FiniteSets, TLC

\* state:    the graph state of the thread (raw messages, session metadata)
\* call:     the arguments of the latest transformState call
\* result:   how the promise of that call settled
\* previous: the result of the call before it, kept when that call had the
\*           same arguments; empty otherwise
VARIABLES state, call, result, previous

\* loading:       the loading prop of ChatInput
\* inputValue:    the text of the input box
\* selectedImage: whether an image is attached
\* pending:       ids of the compose requests whose promise is not settled
\* turns:         the compose requests sent so far, by id, as the agent
\*                holds them
\* channel:       messages from the agent not yet handled by the client
\* settled:       ids of compose requests, in the order their promises
\*                settled
\* posted:        the messages the wingman/compose handler posted to the
\*                composer webview, in order
\* lastTurn:      id of the turn whose response was made latest (0: none)
VARIABLES loading, inputValue, selectedImage, pending, turns, channel,
          settled, posted, lastTurn

transformerVars == <<state, call, result, previous>>

uiVars == <<loading, inputValue, selectedImage>>

bridgeVars == <<pending, turns, channel, settled, posted, lastTurn>>

vars == <<transformerVars, uiVars, bridgeVars>>

\* Longest raw history the agent runtime produces in the model.
MaxHistory == 2

\* Compose requests are sent until this many have been answered.
MaxRequests == 1

\* Most phase notifications the agent sends in one turn.
MaxPhases == 1

\* JavaScript's undefined, where a string-valued slot holds it.
Undefined == "undefined"

(***************************************************************************)
(* Character-code strings.                                                 *)
(***************************************************************************)
\* "data:"
StrData == <<100, 97, 116, 97, 58>>
\* ";base64,"
StrBase64 == <<59, 98, 97, 115, 101, 54, 52, 44>>
\* "image/png"
ImagePng == <<105, 109, 97, 103, 101, 47, 112, 110, 103>>
\* "image/jpeg"
ImageJpeg == <<105, 109, 97, 103, 101, 47, 106, 112, 101, 103>>

\* The base64 alphabet A-Z a-z 0-9 + /, as the code of the i-th digit.
B64Char(i) ==
    IF i < 26 THEN 65 + i
    ELSE IF i < 52 THEN 71 + i
    ELSE IF i < 62 THEN i - 4
    ELSE IF i = 62 THEN 43 ELSE 47

\* The digit a base64 character code stands for.
B64Index(c) ==
    IF c >= 65 /\ c <= 90 THEN c - 65
    ELSE IF c >= 97 /\ c <= 122 THEN c - 71
    ELSE IF c >= 48 /\ c <= 57 THEN c + 4
    ELSE IF c = 43 THEN 62 ELSE 63

RECURSIVE btoa(_)
\* Base64 text of a byte sequence, '=' padded (the payload of a data URL).
btoa(bytes) ==
    IF Len(bytes) = 0 THEN <<>>
    ELSE IF Len(bytes) = 1 THEN
        <<B64Char(bytes[1] \div 4), B64Char((bytes[1] % 4) * 16), 61, 61>>
    ELSE IF Len(bytes) = 2 THEN
        <<B64Char(bytes[1] \div 4),
          B64Char((bytes[1] % 4) * 16 + (bytes[2] \div 16)),
          B64Char((bytes[2] % 16) * 4), 61>>
    ELSE
        <<B64Char(bytes[1] \div 4),
          B64Char((bytes[1] % 4) * 16 + (bytes[2] \div 16)),
          B64Char((bytes[2] % 16) * 4 + (bytes[3] \div 64)),
          B64Char(bytes[3] % 64)>> \o btoa(SubSeq(bytes, 4, Len(bytes)))

\* A reader's data URL of a file: data:<mime>;base64,<payload>.
readAsDataURL(bytes, mime) == StrData \o mime \o StrBase64 \o btoa(bytes)

RECURSIVE atob(_)
\* The bytes of a base64 text; padding ends the text.
atob(s) ==
    IF Len(s) < 2 \/ s[1] = 61 \/ s[2] = 61 THEN <<>>
    ELSE IF Len(s) = 2 \/ s[3] = 61 THEN
        <<B64Index(s[1]) * 4 + (B64Index(s[2]) \div 16)>>
    ELSE IF Len(s) = 3 \/ s[4] = 61 THEN
        <<B64Index(s[1]) * 4 + (B64Index(s[2]) \div 16),
          (B64Index(s[2]) % 16) * 16 + (B64Index(s[3]) \div 4)>>
    ELSE
        <<B64Index(s[1]) * 4 + (B64Index(s[2]) \div 16),
          (B64Index(s[2]) % 16) * 16 + (B64Index(s[3]) \div 4),
          (B64Index(s[3]) % 4) * 64 + B64Index(s[4])>>
        \o atob(SubSeq(s, 5, Len(s)))

\* Position of the first c in s at or after position from; 0 when there is none.
IndexOf(s, c, from) ==
    LET hits == {i \in from..Len(s) : s[i] = c}
    IN IF hits = {} THEN 0 ELSE CHOOSE i \in hits : \A j \in hits : i <= j

\* dataUrl.split(',') restricted to its first two pieces, the ones read.
SplitComma(s) ==
    LET c1 == IndexOf(s, 44, 1)
        c2 == IF c1 = 0 THEN 0 ELSE IndexOf(s, 44, c1 + 1)
    IN IF c1 = 0 THEN <<s>>
       ELSE <<SubSeq(s, 1, c1 - 1),
              SubSeq(s, c1 + 1, IF c2 = 0 THEN Len(s) ELSE c2 - 1)>>

\* arr[0].match(/:(.*?);/)?.[1] || 'image/jpeg'
MatchMime(head) ==
    LET colons == {i \in 1..Len(head) :
                     head[i] = 58 /\ IndexOf(head, 59, i + 1) # 0}
        c == CHOOSE i \in colons : \A j \in colons : i <= j
        found == SubSeq(head, c + 1, IndexOf(head, 59, c + 1) - 1)
    IN IF colons = {} THEN ImageJpeg
       ELSE IF found = <<>> THEN ImageJpeg ELSE found

\* The File a data URL decodes to: its bytes and its MIME type.
dataUrlToFile(dataUrl) ==
    LET arr == SplitComma(dataUrl)
    IN [data |-> IF Len(arr) < 2 THEN <<>> ELSE atob(arr[2]),
        type |-> MatchMime(arr[1])]

(***************************************************************************)
(* Raw (LangChain) messages.                                               *)
(***************************************************************************)
TextSeg(t) == [type |-> "text", text |-> t, url |-> <<>>]

ImageSeg(u) == [type |-> "image_url", text |-> Undefined, url |-> u]

OtherSeg(ty) == [type |-> ty, text |-> Undefined, url |-> <<>>]

StringContent(s) == [isArray |-> FALSE, str |-> s, segs |-> <<>>]

ArrayContent(segs) == [isArray |-> TRUE, str |-> "", segs |-> segs]

Kwargs(temp, note) == [temp |-> temp, note |-> note]

ToolCall(name, id, args) == [name |-> name, id |-> id, args |-> args]

HumanMessage(id, content, kwargs) ==
    [kind |-> "HumanMessage", id |-> id, content |-> content,
     additional_kwargs |-> kwargs, tool_calls |-> <<>>,
     name |-> Undefined, tool_call_id |-> Undefined]

AIMessageChunk(id, content, toolCalls, kwargs) ==
    [kind |-> "AIMessageChunk", id |-> id, content |-> content,
     additional_kwargs |-> kwargs, tool_calls |-> toolCalls,
     name |-> Undefined, tool_call_id |-> Undefined]

LangChainToolMessage(id, name, toolCallId, content, kwargs) ==
    [kind |-> "ToolMessage", id |-> id, content |-> content,
     additional_kwargs |-> kwargs, tool_calls |-> <<>>,
     name |-> name, tool_call_id |-> toolCallId]

\* A BaseMessage of another class (SystemMessage, plain AIMessage, ...).
OtherMessage(kind, id, content, toolCalls) ==
    [kind |-> kind, id |-> id, content |-> content,
     additional_kwargs |-> Kwargs(FALSE, ""), tool_calls |-> toolCalls,
     name |-> Undefined, tool_call_id |-> Undefined]

(***************************************************************************)
(* Composer messages.                                                      *)
(***************************************************************************)
NoImage == [present |-> FALSE, data |-> <<>>, ext |-> <<>>]

UserMessage(id, text, image) ==
    [role |-> "user", id |-> id, text |-> text, image |-> image]

AssistantMessage(id, text) == [role |-> "assistant", id |-> id, text |-> text]

ToolMessage(id, name, toolCallId, args, type, metadata) ==
    [role |-> "tool", id |-> id, name |-> name, toolCallId |-> toolCallId,
     args |-> args, type |-> type, metadata |-> metadata]

(***************************************************************************)
(* mapMessages: the flatMap callback, then the flatMap.                    *)
(***************************************************************************)
Returns(out) == [threw |-> FALSE, out |-> out]

\* A TypeError raised inside the callback.
Throws == [threw |-> TRUE, out |-> <<>>]

\* content.find((c) => c.type === "image_url"): the first such segment's index.
FindImage(segs) ==
    LET hits == {i \in 1..Len(segs) : segs[i].type = "image_url"}
    IN IF hits = {} THEN 0 ELSE CHOOSE i \in hits : \A j \in hits : i <= j

MapHuman(message) ==
    IF ~message.content.isArray THEN Throws
    ELSE LET segs == message.content.segs
             img == FindImage(segs)
         IN IF Len(segs) = 0 THEN Throws
            ELSE Returns(<<UserMessage(
                     message.id,
                     segs[Len(segs)].text,
                     IF img # 0
                     THEN [present |-> TRUE, data |-> segs[img].url,
                           ext |-> ImageJpeg]
                     ELSE NoImage)>>)

RECURSIVE TextMessages(_, _)
TextMessages(id, segs) ==
    IF segs = <<>> THEN <<>>
    ELSE (IF Head(segs).type = "text"
          THEN <<AssistantMessage(id, Head(segs).text)>>
          ELSE <<>>) \o TextMessages(id, Tail(segs))

\* ToolStarts with the test of tool_calls?.length inverted: no call is mapped.
ToolStartsSkipped(message) == <<>>

ToolStarts(message) ==
    [k \in 1..Len(message.tool_calls) |->
        ToolMessage(message.id, message.tool_calls[k].name,
                    message.tool_calls[k].id, message.tool_calls[k].args,
                    "start", message.additional_kwargs)]

\* MapAIChunk with the tool calls pushed before the text content.
MapAIChunkToolsFirst(message) ==
    Returns(ToolStarts(message)
            \o (IF ~message.content.isArray
                THEN <<AssistantMessage(message.id, message.content.str)>>
                ELSE TextMessages(message.id, message.content.segs)))

MapAIChunk(message) ==
    Returns((IF ~message.content.isArray
             THEN <<AssistantMessage(message.id, message.content.str)>>
             ELSE TextMessages(message.id, message.content.segs))
            \o ToolStarts(message))

\* MapTool with the name and the tool_call_id arguments in each other's place.
MapToolSwapped(message) ==
    Returns(<<ToolMessage(message.id, message.tool_call_id, message.name,
                          message.content.str, "end",
                          message.additional_kwargs)>>)

\* MapTool with the phase literal of the AIMessageChunk branch.
MapToolAsStart(message) ==
    Returns(<<ToolMessage(message.id, message.name, message.tool_call_id,
                          message.content.str, "start",
                          message.additional_kwargs)>>)

MapTool(message) ==
    Returns(<<ToolMessage(message.id, message.name, message.tool_call_id,
                          message.content.str, "end",
                          message.additional_kwargs)>>)

\* MapOne without the test of additional_kwargs.temp.
MapOneIgnoringTemp(message) ==
    IF message.kind = "HumanMessage" THEN MapHuman(message)
    ELSE IF message.kind = "AIMessageChunk" THEN MapAIChunk(message)
    ELSE IF message.kind = "ToolMessage" THEN MapTool(message)
    ELSE Returns(<<>>)

\* MapOne testing for AIMessage, the class AIMessageChunk extends.
MapOneAnyAI(message) ==
    IF message.kind = "HumanMessage" /\ ~message.additional_kwargs.temp
    THEN MapHuman(message)
    ELSE IF message.kind \in {"AIMessageChunk", "AIMessage"}
    THEN MapAIChunk(message)
    ELSE IF message.kind = "ToolMessage" THEN MapTool(message)
    ELSE Returns(<<>>)

MapOne(message) ==
    IF message.kind = "HumanMessage" /\ ~message.additional_kwargs.temp
    THEN MapHuman(message)
    ELSE IF message.kind = "AIMessageChunk" THEN MapAIChunk(message)
    ELSE IF message.kind = "ToolMessage" THEN MapTool(message)
    ELSE Returns(<<>>)

\* FlatMap putting each callback result in front of the ones gathered so far.
FlatMapReversed(first, rest) ==
    IF first.threw \/ rest.threw THEN Throws
    ELSE Returns(rest.out \o first.out)

\* Array.prototype.flatMap: the callback's results, concatenated in order;
\* a throw ends it.
FlatMap(first, rest) ==
    IF first.threw \/ rest.threw THEN Throws
    ELSE Returns(first.out \o rest.out)

RECURSIVE mapMessagesBackwards(_)
\* mapMessages walking the history from its newest message to its oldest.
mapMessagesBackwards(messages) ==
    IF messages = <<>> THEN Returns(<<>>)
    ELSE FlatMap(mapMessagesBackwards(Tail(messages)), MapOne(Head(messages)))

RECURSIVE mapMessages(_)
mapMessages(messages) ==
    IF messages = <<>> THEN Returns(<<>>)
    ELSE FlatMap(MapOne(Head(messages)), mapMessages(Tail(messages)))

(***************************************************************************)
(* transformState: the settled promise.                                    *)
(***************************************************************************)
\* ComposerState without the branch provenance of the session record.
ComposerStateNoParent(messages, threadId, canResume, st) ==
    [messages |-> messages, threadId |-> threadId, canResume |-> canResume,
     title |-> st.title, createdAt |-> st.createdAt,
     parentThreadId |-> Undefined]

ComposerState(messages, threadId, canResume, st) ==
    [messages |-> messages, threadId |-> threadId, canResume |-> canResume,
     title |-> st.title, createdAt |-> st.createdAt,
     parentThreadId |-> st.parentThreadId]

\* transformState gathering the mapped messages in a buffer that outlives
\* the call: the messages of the latest snapshot come first.
transformStateAccumulating(st, threadId, workspace, canResume) ==
    LET mapped == mapMessages(st.messages)
        kept == IF result.status = "resolved"
                THEN result.value[1].messages ELSE <<>>
    IN IF mapped.threw
       THEN [status |-> "rejected", error |-> "TypeError", value |-> <<>>]
       ELSE [status |-> "resolved", error |-> "",
             value |-> <<ComposerState(kept \o mapped.out, threadId,
                                       canResume, st)>>]

transformState(st, threadId, workspace, canResume) ==
    LET mapped == mapMessages(st.messages)
    IN IF mapped.threw
       THEN [status |-> "rejected", error |-> "TypeError", value |-> <<>>]
       ELSE [status |-> "resolved", error |-> "",
             value |-> <<ComposerState(mapped.out, threadId, canResume, st)>>]

(***************************************************************************)
(* The inputs of the model.                                                *)
(***************************************************************************)
Payloads == {<<77>>, <<255, 216, 3, 9>>}

Mimes == {ImagePng, ImageJpeg}

Images == {readAsDataURL(b, m) : b \in Payloads, m \in Mimes}

PngImage == readAsDataURL(<<77>>, ImagePng)

HumanMessages ==
    {HumanMessage("h1", ArrayContent(<<TextSeg("a")>>), Kwargs(FALSE, "")),
     HumanMessage("h2", ArrayContent(<<TextSeg("a"), TextSeg("b")>>),
                  Kwargs(FALSE, "")),
     HumanMessage("h4", ArrayContent(<<TextSeg("a"), ImageSeg(PngImage)>>),
                  Kwargs(FALSE, "")),
     HumanMessage("h5", ArrayContent(<<TextSeg("a"), ImageSeg(PngImage),
                                       TextSeg("b")>>), Kwargs(FALSE, "")),
     HumanMessage("h6", ArrayContent(<<>>), Kwargs(FALSE, "")),
     HumanMessage("h7", StringContent("a"), Kwargs(FALSE, "")),
     HumanMessage("h8", ArrayContent(<<TextSeg("a")>>), Kwargs(TRUE, "")),
     HumanMessage("h9", ArrayContent(<<>>), Kwargs(TRUE, "")),
     HumanMessage("h10", ArrayContent(<<ImageSeg(PngImage)>>),
                  Kwargs(TRUE, "")),
     HumanMessage("h11", StringContent("a"), Kwargs(TRUE, "")),
     HumanMessage("h12", ArrayContent(<<OtherSeg("tool_use")>>),
                  Kwargs(FALSE, ""))}
    \cup {HumanMessage("h3", ArrayContent(<<ImageSeg(u), TextSeg("a")>>),
                       Kwargs(FALSE, "")) : u \in Images}

AIMessageChunks ==
    {AIMessageChunk("a1", StringContent("Hello"), <<>>, Kwargs(FALSE, "")),
     AIMessageChunk("a2", ArrayContent(<<TextSeg("A"), TextSeg("B")>>),
                    <<ToolCall("search", "tc1", "{query:foo}")>>,
                    Kwargs(FALSE, "m")),
     AIMessageChunk("a3", ArrayContent(<<OtherSeg("tool_use"), TextSeg("A")>>),
                    <<>>, Kwargs(FALSE, "")),
     AIMessageChunk("a4", StringContent(""),
                    <<ToolCall("search", "tc1", "{query:foo}"),
                      ToolCall("read", "tc2", "{path:x}")>>,
                    Kwargs(FALSE, ""))}

LangChainToolMessages ==
    {LangChainToolMessage("r1", "search", "tc1", StringContent("{hits:3}"),
                          Kwargs(FALSE, "")),
     LangChainToolMessage("r2", "read", "tc2", StringContent("ok"),
                          Kwargs(FALSE, "m"))}

OtherMessages ==
    {OtherMessage("SystemMessage", "s1", StringContent("sys"), <<>>),
     OtherMessage("AIMessage", "o1", StringContent("Hello"),
                  <<ToolCall("search", "tc1", "{query:foo}")>>)}

RawMessages ==
    HumanMessages \cup AIMessageChunks \cup LangChainToolMessages
    \cup OtherMessages

\* The threadId argument: a thread's id, the empty string, or none at all.
ThreadIds == {"t1", "", Undefined}

ParentThreadIds == {"t0", Undefined}

NoResult == [status |-> "none", error |-> "", value |-> <<>>]

(***************************************************************************)
(* The state machine: the agent runtime appends raw messages to the graph  *)
(* state; transformState is called on the graph state as it then is.       *)
(***************************************************************************)
Init ==
    /\ state \in {[messages |-> <<>>, title |-> "New Thread", createdAt |-> 1,
                   parentThreadId |-> p] : p \in ParentThreadIds}
    /\ call = [state |-> state, threadId |-> Undefined, workspace |-> "",
               canResume |-> FALSE]
    /\ result = NoResult
    /\ previous = <<>>
    /\ loading = FALSE
    /\ inputValue = ""
    /\ selectedImage = FALSE
    /\ pending = {}
    /\ turns = <<>>
    /\ channel = {}
    /\ settled = <<>>
    /\ posted = <<>>
    /\ lastTurn = 0

Emit(m) ==
    /\ Len(state.messages) < MaxHistory
    /\ state' = [state EXCEPT !.messages = Append(@, m)]
    /\ UNCHANGED <<call, result, previous, uiVars, bridgeVars>>

\* A call of transformState on the graph state as it is, and its outcome.
TransformStateStep(threadId, canResume) ==
    /\ call' = [state |-> state, threadId |-> threadId, workspace |-> "ws",
                canResume |-> canResume]
    /\ result' = transformState(state, threadId, "ws", canResume)
    /\ previous' = IF result.status # "none" /\ call' = call
                   THEN <<result>> ELSE <<>>

CallTransformState(threadId, canResume) ==
    /\ TransformStateStep(threadId, canResume)
    /\ UNCHANGED <<state, uiVars, bridgeVars>>

Next ==
    \/ \E m \in RawMessages : Emit(m)
    \/ \E threadId \in ThreadIds, canResume \in BOOLEAN :
          CallTransformState(threadId, canResume)

Spec == Init /\ [][Next]_vars

(***************************************************************************)
(* The session transport bridge: the input box of the composer view        *)
(* (ChatInput.tsx), the language client (client/index.ts) and the agent    *)
(* behind it.  One thread is open in the view.                             *)
(***************************************************************************)
\* The thread the composer view shows.
ViewThreadId == "t1"

InputValues == {"", " ", "hi"}

Keys == {"Enter", "ArrowDown"}

\* The raw messages a turn of the agent produces, in the order it produces
\* them: the user's message, a chunk invoking two tools, the result of the
\* first.
TurnScript ==
    <<HumanMessage("h1", ArrayContent(<<TextSeg("a")>>), Kwargs(FALSE, "")),
      AIMessageChunk("a4", StringContent(""),
                     <<ToolCall("search", "tc1", "{query:foo}"),
                       ToolCall("read", "tc2", "{path:x}")>>,
                     Kwargs(FALSE, "")),
      LangChainToolMessage("r1", "search", "tc1", StringContent("{hits:3}"),
                           Kwargs(FALSE, ""))>>

\* inputValue.trim()
Trim(v) == IF v = " " THEN "" ELSE v

\* handleDropdownSelect: the input without its last word.
DropLastWord(v) == IF v = " " THEN " " ELSE ""

Turn(threadId) ==
    [threadId |-> threadId, phases |-> 0, emitted |-> 0,
     cancelled |-> FALSE, status |-> "running"]

PhaseRequest(id, seq) == [kind |-> "request", id |-> id, seq |-> seq]

Response(id) == [kind |-> "response", id |-> id, seq |-> 0]

\* LSPClient.compose: the request goes out under a fresh id and its promise
\* is pending; the agent starts a turn for it.
compose(threadId) ==
    /\ Len(settled) < MaxRequests
    /\ pending' = pending \cup {Len(turns) + 1}
    /\ turns' = Append(turns, Turn(threadId))
    /\ UNCHANGED <<channel, settled, posted, lastTurn>>

\* onChatSubmitted of the composer view: the view is loading from the submit
\* on, and the request is handed to LSPClient.compose.
OnChatSubmitted ==
    /\ loading' = TRUE
    /\ compose(ViewThreadId)

\* handleUserInput without the test of loading.
HandleUserInputNoLoading(key, shiftKey, showDropdown) ==
    IF Trim(inputValue) = "" /\ ~selectedImage
    THEN UNCHANGED vars
    ELSE IF key = "Enter" /\ ~shiftKey
    THEN IF showDropdown
         THEN /\ inputValue' = DropLastWord(inputValue)
              /\ UNCHANGED <<loading, selectedImage, transformerVars,
                             bridgeVars>>
         ELSE /\ OnChatSubmitted
              /\ inputValue' = ""
              /\ selectedImage' = FALSE
              /\ UNCHANGED transformerVars
    ELSE UNCHANGED vars

\* handleUserInput: a key pressed in the input box (the send button calls it
\* with Enter).
HandleUserInput(key, shiftKey, showDropdown) ==
    IF (Trim(inputValue) = "" /\ ~selectedImage) \/ loading
    THEN UNCHANGED vars
    ELSE IF key = "Enter" /\ ~shiftKey
    THEN IF showDropdown
         THEN /\ inputValue' = DropLastWord(inputValue)
              /\ UNCHANGED <<loading, selectedImage, transformerVars,
                             bridgeVars>>
         ELSE /\ OnChatSubmitted
              /\ inputValue' = ""
              /\ selectedImage' = FALSE
              /\ UNCHANGED transformerVars
    ELSE UNCHANGED vars

\* The send button: rendered while not loading, disabled without input.
ClickSend(showDropdown) ==
    /\ ~loading
    /\ ~(Trim(inputValue) = "" /\ ~selectedImage)
    /\ HandleUserInput("Enter", FALSE, showDropdown)

HandleInputChange(value) ==
    /\ inputValue' = value
    /\ UNCHANGED <<loading, selectedImage, transformerVars, bridgeVars>>

HandleImageSelect ==
    /\ selectedImage' = TRUE
    /\ UNCHANGED <<loading, inputValue, transformerVars, bridgeVars>>

\* LSPClient.cancelComposer: the agent is asked to stop its turns.
cancelComposer ==
    /\ turns' = [id \in 1..Len(turns) |->
                    IF turns[id].status = "running"
                    THEN [turns[id] EXCEPT !.cancelled = TRUE]
                    ELSE turns[id]]
    /\ UNCHANGED <<pending, channel, settled, posted, lastTurn>>

\* The cancel button: rendered while loading.
ClickCancel ==
    /\ loading
    /\ cancelComposer
    /\ UNCHANGED <<uiVars, transformerVars>>

Running(id) == turns[id].status = "running"

\* The agent reports a phase of a turn: a wingman/compose request to the
\* client.
AgentNotify(id) ==
    /\ Running(id)
    /\ ~turns[id].cancelled
    /\ turns[id].phases < MaxPhases
    /\ turns' = [turns EXCEPT ![id].phases = @ + 1]
    /\ channel' = channel \cup {PhaseRequest(id, turns[id].phases + 1)}
    /\ UNCHANGED <<pending, settled, posted, lastTurn, uiVars,
                   transformerVars>>

\* The agent produces the next raw message of a turn that was not cancelled.
AgentEmit(id) ==
    /\ Running(id)
    /\ ~turns[id].cancelled
    /\ turns[id].emitted < Len(TurnScript)
    /\ state' = [state EXCEPT
                    !.messages = Append(@, TurnScript[turns[id].emitted + 1])]
    /\ turns' = [turns EXCEPT ![id].emitted = @ + 1]
    /\ UNCHANGED <<call, result, previous, uiVars, pending, channel, settled,
                   posted, lastTurn>>

\* The agent ends a turn: the response to the compose request is the
\* snapshot of the thread as it is.
AgentRespond(id) ==
    /\ Running(id)
    /\ TransformStateStep(turns[id].threadId, TRUE)
    /\ turns' = [turns EXCEPT ![id].status = "done"]
    /\ channel' = channel \cup {Response(id)}
    /\ lastTurn' = id
    /\ UNCHANGED <<state, pending, settled, posted, uiVars>>

\* The composer view when the compose promise has settled.
OnComposeSettled == loading' = FALSE

\* The response to a sendRequest arrives: the promise pending under its id
\* settles; a response to no pending id is dropped.
DeliverResponse(msg) ==
    /\ msg \in channel
    /\ msg.kind = "response"
    /\ channel' = channel \ {msg}
    /\ IF msg.id \in pending
       THEN /\ pending' = pending \ {msg.id}
            /\ settled' = Append(settled, msg.id)
            /\ OnComposeSettled
       ELSE UNCHANGED <<pending, settled, loading>>
    /\ UNCHANGED <<turns, posted, lastTurn, inputValue, selectedImage,
                   transformerVars>>

\* The wingman/compose handler taking the request for the response awaited.
OnRequestComposeSettles(msg) ==
    /\ msg \in channel
    /\ msg.kind = "request"
    /\ channel' = channel \ {msg}
    /\ posted' = Append(posted, [id |-> msg.id, seq |-> msg.seq])
    /\ IF msg.id \in pending
       THEN /\ pending' = pending \ {msg.id}
            /\ settled' = Append(settled, msg.id)
            /\ OnComposeSettled
       ELSE UNCHANGED <<pending, settled, loading>>
    /\ UNCHANGED <<turns, lastTurn, inputValue, selectedImage,
                   transformerVars>>

\* client.onRequest("wingman/compose"): the phase is logged and posted to
\* the composer webview as compose-response.
OnRequestCompose(msg) ==
    /\ msg \in channel
    /\ msg.kind = "request"
    /\ channel' = channel \ {msg}
    /\ posted' = Append(posted, [id |-> msg.id, seq |-> msg.seq])
    /\ UNCHANGED <<pending, turns, settled, lastTurn, uiVars,
                   transformerVars>>

NextBridge ==
    \/ \E value \in InputValues : HandleInputChange(value)
    \/ HandleImageSelect
    \/ \E key \in Keys, shiftKey \in BOOLEAN, showDropdown \in BOOLEAN :
          HandleUserInput(key, shiftKey, showDropdown)
    \/ \E showDropdown \in BOOLEAN : ClickSend(showDropdown)
    \/ ClickCancel
    \/ \E id \in 1..Len(turns) : AgentNotify(id)
    \/ \E id \in 1..Len(turns) : AgentEmit(id)
    \/ \E id \in 1..Len(turns) : AgentRespond(id)
    \/ \E msg \in channel : DeliverResponse(msg)
    \/ \E msg \in channel : OnRequestCompose(msg)

SpecBridge == Init /\ [][NextBridge]_vars

(***************************************************************************)
(* Properties.  They relate the arguments of the latest call (call) to the *)
(* way its promise settled (result).                                       *)
(***************************************************************************)
Called == result.status # "none"

Assembled == result.status = "resolved"

\* The raw history the latest call was given.
History == call.state.messages

\* The message sequence of the snapshot (empty when there is none).
Messages == IF Assembled THEN result.value[1].messages ELSE <<>>

IsStart(m, id) == m.role = "tool" /\ m.type = "start" /\ m.toolCallId = id

IsEnd(m, id) == m.role = "tool" /\ m.type = "end" /\ m.toolCallId = id

ToolCallIds == {"tc1", "tc2"}

\* The tool-call ids an assistant chunk invokes.
Invoked(m) ==
    IF m.kind = "AIMessageChunk"
    THEN {m.tool_calls[k].id : k \in 1..Len(m.tool_calls)} ELSE {}

RECURSIVE OutputsBefore(_, _)
\* How many canonical messages the raw messages before position i produce.
OutputsBefore(h, i) ==
    IF i <= 1 THEN 0
    ELSE OutputsBefore(h, i - 1) + Len(MapOne(h[i - 1]).out)

\* The part of the snapshot's message sequence that raw message i produced.
Contribution(i) ==
    SubSeq(Messages, OutputsBefore(History, i) + 1,
           OutputsBefore(History, i + 1))

\* The k-th smallest member of a set of positions.
Nth(S, k) == CHOOSE i \in S : Cardinality({j \in S : j <= i}) = k

\* C1 as stated: in whatever raw history transformState is given, a
\* ToolMessage of phase end never comes before a ToolMessage of phase start
\* that has the same toolCallId.
C1_EndNeverPrecedesStart ==
    \A i, j \in 1..Len(Messages), id \in ToolCallIds :
        (IsEnd(Messages[i], id) /\ IsStart(Messages[j], id)) => j < i

\* Every tool result comes after every assistant chunk that invokes its
\* tool_call_id.
EmissionOrdered(h) ==
    \A i, j \in 1..Len(h) :
        (h[i].kind = "ToolMessage" /\ h[i].tool_call_id \in Invoked(h[j]))
            => j < i

\* C1 amended: when the raw history holds every tool result after the
\* assistant chunks invoking its tool_call_id, no end ToolMessage comes before
\* a start ToolMessage with the same toolCallId in the snapshot.
C1_EndFollowsStartInEmissionOrder ==
    EmissionOrdered(History) => C1_EndNeverPrecedesStart

C1_Witness ==
    /\ Assembled
    /\ EmissionOrdered(History)
    /\ \E i, j \in 1..Len(Messages) :
          IsStart(Messages[i], "tc1") /\ IsEnd(Messages[j], "tc1") /\ i < j

C3_RawOrderPreserved ==
    Assembled =>
        /\ Len(Messages) = OutputsBefore(History, Len(History) + 1)
        /\ \A i \in 1..Len(History) :
              Contribution(i) = MapOne(History[i]).out

C3_Witness ==
    /\ Assembled
    /\ Len(History) = 2
    /\ Len(Contribution(1)) >= 2
    /\ Len(Contribution(2)) >= 1
    /\ Contribution(1)[1] # Contribution(2)[1]

\* C4: an assistant chunk yields its AssistantMessages (one with the whole
\* text for string content, else one per text segment in segment order),
\* then one start ToolMessage per tool call in call order, each with the
\* call's name, id and args and the chunk's metadata.
C4_AssistantContribution ==
    Assembled =>
        \A i \in 1..Len(History) :
            History[i].kind = "AIMessageChunk" =>
                LET m == History[i]
                    segs == m.content.segs
                    texts == {k \in 1..Len(segs) : segs[k].type = "text"}
                    n == IF m.content.isArray THEN Cardinality(texts) ELSE 1
                    out == Contribution(i)
                IN /\ Len(out) = n + Len(m.tool_calls)
                   /\ \A k \in 1..n :
                         /\ out[k].role = "assistant"
                         /\ out[k].id = m.id
                         /\ out[k].text = IF m.content.isArray
                                          THEN segs[Nth(texts, k)].text
                                          ELSE m.content.str
                   /\ \A k \in 1..Len(m.tool_calls) :
                         /\ out[n + k].role = "tool"
                         /\ out[n + k].type = "start"
                         /\ out[n + k].id = m.id
                         /\ out[n + k].name = m.tool_calls[k].name
                         /\ out[n + k].toolCallId = m.tool_calls[k].id
                         /\ out[n + k].args = m.tool_calls[k].args
                         /\ out[n + k].metadata = m.additional_kwargs

\* [text A, text B] with the call search/tc1/{query:foo} was assembled to
\* AssistantMessage(A), AssistantMessage(B), ToolMessage(search, tc1, start).
C4_Witness ==
    /\ Assembled
    /\ Len(History) = 1
    /\ History[1].id = "a2"
    /\ Len(Messages) = 3
    /\ Messages[1].text = "A"
    /\ Messages[2].text = "B"
    /\ IsStart(Messages[3], "tc1")
    /\ Messages[3].args = "{query:foo}"

\* C5: a tool result yields exactly one ToolMessage, of phase end, with the
\* result's name, tool_call_id and payload; an assistant chunk invoking a
\* tool call followed by that call's result gives a snapshot with the start
\* and then the end.
C5_ToolResultContribution ==
    Assembled =>
        /\ \A i \in 1..Len(History) :
              History[i].kind = "ToolMessage" =>
                  /\ Len(Contribution(i)) = 1
                  /\ Contribution(i)[1].role = "tool"
                  /\ Contribution(i)[1].type = "end"
                  /\ Contribution(i)[1].name = History[i].name
                  /\ Contribution(i)[1].toolCallId = History[i].tool_call_id
                  /\ Contribution(i)[1].args = History[i].content.str
        /\ \A i, j \in 1..Len(History) :
              (/\ i < j
               /\ History[j].kind = "ToolMessage"
               /\ History[j].tool_call_id \in Invoked(History[i]))
              => \E p, q \in 1..Len(Messages) :
                    /\ p < q
                    /\ IsStart(Messages[p], History[j].tool_call_id)
                    /\ IsEnd(Messages[q], History[j].tool_call_id)
                    /\ Messages[q].name = History[j].name

C5_Witness ==
    /\ Assembled
    /\ Len(History) = 2
    /\ History[1].id = "a2"
    /\ History[2].id = "r1"
    /\ Len(Messages) = 4
    /\ IsStart(Messages[3], "tc1")
    /\ IsEnd(Messages[4], "tc1")
    /\ Messages[4].name = "search"
    /\ Messages[4].args = "{hits:3}"

Transient(m) == m.kind = "HumanMessage" /\ m.additional_kwargs.temp

NotTransient(m) == ~Transient(m)

\* C6: the call settles as it would on the history without its transient
\* user messages (they add nothing and change no other contribution), and a
\* history of transient user messages alone gives an empty message sequence.
C6_TransientExcluded ==
    Called =>
        /\ result = transformState(
                        [call.state EXCEPT
                            !.messages = SelectSeq(@, NotTransient)],
                        call.threadId, call.workspace, call.canResume)
        /\ (\A i \in 1..Len(History) : Transient(History[i]))
              => (Assembled /\ Messages = <<>>)
        /\ Assembled =>
              \A i \in 1..Len(History) :
                  Transient(History[i]) => Contribution(i) = <<>>

\* A transient user message with an empty content list next to a message
\* that contributes.
C6_Witness ==
    /\ Assembled
    /\ \E i \in 1..Len(History) :
          /\ Transient(History[i])
          /\ History[i].content.isArray
          /\ History[i].content.segs = <<>>
    /\ Len(Messages) >= 1

KnownKind(m) == m.kind \in {"HumanMessage", "AIMessageChunk", "ToolMessage"}

\* C7: the call settles as it would on the history without its messages of
\* other kinds; alone they give a snapshot with an empty message sequence,
\* never a rejection.
C7_UnknownKindsDropped ==
    Called =>
        /\ result = transformState(
                        [call.state EXCEPT
                            !.messages = SelectSeq(@, KnownKind)],
                        call.threadId, call.workspace, call.canResume)
        /\ (\A i \in 1..Len(History) : ~KnownKind(History[i]))
              => (Assembled /\ Messages = <<>>)
        /\ Assembled =>
              \A i \in 1..Len(History) :
                  ~KnownKind(History[i]) => Contribution(i) = <<>>

\* A plain AIMessage next to a message that contributes.
C7_Witness ==
    /\ Assembled
    /\ \E i \in 1..Len(History) : History[i].kind = "AIMessage"
    /\ Len(Messages) >= 1

\* C8: a non-transient user message with at least one text segment yields a
\* UserMessage whose text is that of its last text segment, wherever the
\* image segment sits.
C8_LastTextSegment ==
    Assembled =>
        \A i \in 1..Len(History) :
            LET m == History[i]
                segs == m.content.segs
                texts == {k \in 1..Len(segs) : segs[k].type = "text"}
            IN (m.kind = "HumanMessage" /\ ~Transient(m) /\ texts # {})
                  => /\ Len(Contribution(i)) = 1
                     /\ Contribution(i)[1].role = "user"
                     /\ Contribution(i)[1].text
                            = segs[Nth(texts, Cardinality(texts))].text

\* C9: a user message carrying the data URL of a payload and a MIME type
\* yields a UserMessage whose image holds that payload and that MIME type.
C9_ImageRoundTrip ==
    Assembled =>
        \A i \in 1..Len(History), b \in Payloads, mime \in Mimes :
            LET m == History[i]
                segs == m.content.segs
            IN (/\ m.kind = "HumanMessage"
                /\ ~Transient(m)
                /\ FindImage(segs) # 0
                /\ segs[FindImage(segs)].url = readAsDataURL(b, mime))
               => /\ Len(Contribution(i)) = 1
                  /\ Contribution(i)[1].image.present
                  /\ Contribution(i)[1].image.data = b
                  /\ Contribution(i)[1].image.ext = mime

\* C10: a call without a threadId (none, or the empty string) is rejected
\* with a MissingSessionContext error and gives no snapshot.
C10_MissingSessionContext ==
    (Called /\ call.threadId \in {"", Undefined})
        => /\ result.status = "rejected"
           /\ result.error = "MissingSessionContext"
           /\ result.value = <<>>

\* C11: an empty raw history of a freshly branched thread (a threadId given,
\* a parent in the session record) is assembled to a snapshot with no
\* messages, the threadId of the call and the parentThreadId of the record,
\* both non-empty.
C11_EmptyBranchedThread ==
    (/\ Called
     /\ History = <<>>
     /\ call.threadId \notin {"", Undefined}
     /\ call.state.parentThreadId \notin {"", Undefined})
    => /\ Assembled
       /\ result.value[1].messages = <<>>
       /\ result.value[1].threadId = call.threadId
       /\ result.value[1].parentThreadId = call.state.parentThreadId
       /\ result.value[1].parentThreadId \notin {"", Undefined}

C11_Witness ==
    /\ Assembled
    /\ History = <<>>
    /\ call.threadId = "t1"
    /\ result.value[1].parentThreadId = "t0"

\* How many messages of the snapshot are ToolMessages of this phase and id.
PhaseCount(type, id) ==
    Cardinality({i \in 1..Len(Messages) :
                    /\ Messages[i].role = "tool"
                    /\ Messages[i].type = type
                    /\ Messages[i].toolCallId = id})

\* C13 as stated: in every snapshot each toolCallId that occurs has exactly
\* one start ToolMessage and at most one end ToolMessage.
C13_OneStartAtMostOneEnd ==
    \A id \in ToolCallIds :
        (PhaseCount("start", id) + PhaseCount("end", id) > 0)
            => (PhaseCount("start", id) = 1 /\ PhaseCount("end", id) <= 1)

\* The tool calls of a raw history: <<i, k>> is the k-th call of the chunk at
\* position i.
ToolCallsOf(h) ==
    UNION {{<<i, k>> : k \in 1..Len(h[i].tool_calls)} :
              i \in {j \in 1..Len(h) : h[j].kind = "AIMessageChunk"}}

\* The raw history invokes each tool-call id at most once, holds at most one
\* result per id, and holds a result only for an id it invokes.
CallsPaired(h) ==
    \A id \in ToolCallIds :
        LET calls == {c \in ToolCallsOf(h) : h[c[1]].tool_calls[c[2]].id = id}
            results == {i \in 1..Len(h) :
                           h[i].kind = "ToolMessage" /\ h[i].tool_call_id = id}
        IN /\ Cardinality(calls) <= 1
           /\ Cardinality(results) <= 1
           /\ results # {} => calls # {}

\* C13 amended: when the raw history invokes each tool-call id at most once
\* and holds at most one result per invoked id and none for other ids, each
\* toolCallId of the snapshot has exactly one start and at most one end.
C13_PairedCallsGivePairedPhases ==
    CallsPaired(History) => C13_OneStartAtMostOneEnd

C13_Witness ==
    /\ Assembled
    /\ CallsPaired(History)
    /\ PhaseCount("start", "tc1") = 1
    /\ PhaseCount("end", "tc1") = 1

\* C14: a non-transient user message with no text segment and no image
\* segment makes the call fail; no UserMessage is made of it.
C14_NoTextNoImageFails ==
    (/\ Called
     /\ \E i \in 1..Len(History) :
           /\ History[i].kind = "HumanMessage"
           /\ ~Transient(History[i])
           /\ History[i].content.isArray
           /\ \A k \in 1..Len(History[i].content.segs) :
                 History[i].content.segs[k].type \notin {"text", "image_url"})
    => result.status = "rejected"

\* How often x occurs in a sequence.
Count(seq, x) == Cardinality({i \in 1..Len(seq) : seq[i] = x})

C15_CancelledTurnAssembles ==
    (lastTurn # 0 /\ turns[lastTurn].cancelled) =>
        /\ Assembled
        /\ result.value[1].threadId = turns[lastTurn].threadId
        /\ Len(History) <= Len(state.messages)
        /\ History = SubSeq(state.messages, 1, Len(History))
        /\ Len(Messages) = OutputsBefore(History, Len(History) + 1)
        /\ \A c \in ToolCallsOf(History) :
              LET id == History[c[1]].tool_calls[c[2]].id
              IN (\A j \in (c[1] + 1)..Len(History) :
                     ~(/\ History[j].kind = "ToolMessage"
                       /\ History[j].tool_call_id = id))
                 => \E p \in 1..Len(Messages) :
                       /\ IsStart(Messages[p], id)
                       /\ \A q \in (p + 1)..Len(Messages) :
                             ~IsEnd(Messages[q], id)
        /\ \A p \in 1..Len(Messages) :
              /\ Messages[p].role \in {"user", "assistant", "tool"}
              /\ Messages[p].role = "tool"
                    => Messages[p].type \in {"start", "end"}

\* A turn cancelled after the chunk that invokes two tools and before any
\* result.
C15_Witness ==
    /\ lastTurn = 1
    /\ turns[1].cancelled
    /\ Assembled
    /\ Len(History) = 2
    /\ PhaseCount("start", "tc1") = 1
    /\ PhaseCount("start", "tc2") = 1
    /\ PhaseCount("end", "tc1") = 0

====
